---- MODULE Spec2Model ----
(***************************************************************************)
(* RigidBody kinematic of artist/field/kinematic_rigid_body.py.            *)
(*                                                                         *)
(* Tensors of float32 are modelled in fixed point: a real r is the integer *)
(* r * SCALE, angles are radians in the same fixed point.  IEEE NaN is the *)
(* absorbing value NaN.  The batch dimension is 1 (actuator_steps is       *)
(* created with shape (1, 2)), so a [1, 4] tensor is a 4-tuple and a       *)
(* [1, 4, 4] tensor a 4-tuple of rows.                                     *)
(*                                                                         *)
(* An operator that uses an operand more than once binds it first to the   *)
(* single element of a set ({F(v) : v \in {e}}), so that the operand is    *)
(* computed once, as the tensor it is in the program.                      *)
(***************************************************************************)
EXTENDS Integers, Sequences, FiniteSets

\* ------------------------------------------------------------------ state
VARIABLES
    \* the kinematic (self)
    position, aim_point, deviation_parameters, initial_orientation_offsets, actuators,
    \* the caller's tensors
    incident_ray_direction, surface,
    \* the frame of the running align call
    pc, max_num_iterations, min_eps, actuator_steps, orientation, last_iteration_loss,
    loss, desired_concentrator_normal, joint_angles,
    \* what the call gave back
    outcome, result, aligned_surface,
    \* history: the ray as passed, rounds started, whether the loop was left by
    \* break, the positions the latest forward chain used, the error compared
    \* against, every inverse-solve output, actuator queries, calls finished
    ray0, rounds, broke, round_steps, prev_loss, solved_steps, actuator_calls, earlier_calls

\* ---------------------------------------------------------------- numbers
SCALE == 10000

PI == 31416

NaN == 999999999

HALFPI == PI \div 2

TWOPI == 2 * PI

None == <<>>

Abs(x) == IF x < 0 THEN -x ELSE x

IsNaN(x) == x = NaN

\* a / b rounded to the nearest integer, half away from zero (b > 0)
RDiv(a, b) == IF a >= 0 THEN (2 * a + b) \div (2 * b) ELSE -((2 * (-a) + b) \div (2 * b))

Neg(a) == IF IsNaN(a) THEN NaN ELSE -a

Add(a, b) == IF IsNaN(a) \/ IsNaN(b) THEN NaN ELSE a + b

Sub(a, b) == IF IsNaN(a) \/ IsNaN(b) THEN NaN ELSE a - b

Mul(a, b) == IF IsNaN(a) \/ IsNaN(b) THEN NaN ELSE RDiv(a * b, SCALE)

\* a / b of two floats: 0/0 and x/0 with a NaN operand are NaN.  x/0 with
\* x # 0 is an infinity, which the only consumer (arcsin) maps to NaN.
Div(a, b) == IF IsNaN(a) \/ IsNaN(b) \/ b = 0 THEN NaN ELSE RDiv(a * SCALE, Abs(b)) * (IF b < 0 THEN -1 ELSE 1)

AbsF(a) == IF IsNaN(a) THEN NaN ELSE Abs(a)

\* a <= b on floats: every comparison with NaN is false
Leq(a, b) == ~IsNaN(a) /\ ~IsNaN(b) /\ a <= b

RECURSIVE SqrtBisect(_, _, _)
SqrtBisect(n, lo, hi) ==
    IF lo >= hi THEN lo
    ELSE CHOOSE r \in {IF mid * mid <= n THEN SqrtBisect(n, mid, hi)
                        ELSE SqrtBisect(n, lo, mid - 1) : mid \in {(lo + hi + 1) \div 2}} : TRUE

\* floor of the square root of n, 0 <= n < 2^31
ISqrt(n) == CHOOSE r \in {SqrtBisect(v, 0, 46340) : v \in {n}} : TRUE

\* ------------------------------------------------------------ trigonometry
Wrap(x) == ((x + PI) % TWOPI) - PI

Clamp(r) == IF r > SCALE THEN SCALE ELSE IF r < -SCALE THEN -SCALE ELSE r

SinPoly(x, x2) ==
    Mul(x, SCALE - Mul(RDiv(x2, 6), SCALE - Mul(RDiv(x2, 20),
           SCALE - Mul(RDiv(x2, 42), SCALE - RDiv(x2, 72)))))

\* sin on [-pi/2, pi/2]: the Taylor polynomial of degree 9
SinSeries(x) == CHOOSE r \in {Clamp(rr) : rr \in {SinPoly(v, Mul(v, v)) : v \in {x}}} : TRUE

CosPoly(x2) ==
    SCALE - Mul(RDiv(x2, 2), SCALE - Mul(RDiv(x2, 12), SCALE - Mul(RDiv(x2, 30),
            SCALE - Mul(RDiv(x2, 56), SCALE - RDiv(x2, 90)))))

\* cos on [-pi/2, pi/2]: the Taylor polynomial of degree 10
CosSeries(x) == CHOOSE r \in {Clamp(rr) : rr \in {CosPoly(v2) : v2 \in {Mul(v, v) : v \in {x}}}} : TRUE

SinWrapped(w) ==
    IF w > HALFPI THEN SinSeries(PI - w)
    ELSE IF w < -HALFPI THEN SinSeries(-PI - w)
    ELSE SinSeries(w)

CosWrapped(w) ==
    IF w > HALFPI THEN -CosSeries(PI - w)
    ELSE IF w < -HALFPI THEN -CosSeries(-PI - w)
    ELSE CosSeries(w)

\* torch.sin
Sin(x) == CHOOSE r \in {IF IsNaN(v) THEN NaN ELSE SinWrapped(Wrap(v)) : v \in {x}} : TRUE

\* torch.cos
Cos(x) == CHOOSE r \in {IF IsNaN(v) THEN NaN ELSE CosWrapped(Wrap(v)) : v \in {x}} : TRUE

RECURSIVE ArcsinBisect(_, _, _)
ArcsinBisect(x, lo, hi) ==
    IF lo >= hi THEN hi
    ELSE CHOOSE r \in {IF SinSeries(mid) >= x THEN ArcsinBisect(x, lo, mid)
                        ELSE ArcsinBisect(x, mid + 1, hi) : mid \in {(lo + hi) \div 2}} : TRUE

\* torch.arcsin: NaN outside [-1, 1]
ArcsinV(x) ==
    IF IsNaN(x) \/ Abs(x) > SCALE THEN NaN
    ELSE IF Abs(x) = SCALE THEN (IF x > 0 THEN HALFPI ELSE -HALFPI)
    ELSE IF x >= 0 THEN ArcsinBisect(x, 0, HALFPI) ELSE -ArcsinBisect(-x, 0, HALFPI)

Arcsin(x) == CHOOSE r \in {ArcsinV(v) : v \in {x}} : TRUE

\* torch.arctan2(y, x), result in [-pi, pi]; zeros are taken as +0
\* the angle of the direction (cc, ss), cc^2 + ss^2 = 1
AngleOf(cc, ss) ==
    IF cc >= Abs(ss) THEN Arcsin(ss)
    ELSE IF -cc >= Abs(ss) THEN (IF ss >= 0 THEN PI - Arcsin(ss) ELSE -PI - Arcsin(ss))
    ELSE IF ss > 0 THEN HALFPI - Arcsin(cc)
    ELSE Arcsin(cc) - HALFPI

Arctan2Scaled(xs, ys) ==
    CHOOSE r \in {AngleOf(Clamp(RDiv(xs * SCALE, n)), Clamp(RDiv(ys * SCALE, n))) :
                  n \in {ISqrt(xs * xs + ys * ys)}} : TRUE

Arctan2V(y, x) ==
    IF IsNaN(y) \/ IsNaN(x) THEN NaN
    ELSE IF y = 0 /\ x = 0 THEN 0
    ELSE CHOOSE r \in {Arctan2Scaled(RDiv(x, k), RDiv(y, k)) :
                       k \in {(IF Abs(x) > Abs(y) THEN Abs(x) ELSE Abs(y)) \div SCALE + 1}} : TRUE

Arctan2(y, x) == CHOOSE r \in {Arctan2V(yv, xv) : yv \in {y}, xv \in {x}} : TRUE

\* ------------------------------------------------------- vectors, matrices
Idx == 1..4

VecAdd(v, w) == CHOOSE r \in {[i \in Idx |-> Add(a[i], b[i])] : a \in {v}, b \in {w}} : TRUE

VecSub(v, w) == CHOOSE r \in {[i \in Idx |-> Sub(a[i], b[i])] : a \in {v}, b \in {w}} : TRUE

VecAbs(v) == CHOOSE r \in {[i \in Idx |-> AbsF(a[i])] : a \in {v}} : TRUE

VecHasNaN(v) == \E i \in Idx : IsNaN(v[i])

MaxAbs(v) ==
    LET m12 == IF Abs(v[1]) > Abs(v[2]) THEN Abs(v[1]) ELSE Abs(v[2])
        m34 == IF Abs(v[3]) > Abs(v[4]) THEN Abs(v[3]) ELSE Abs(v[4])
    IN  IF m12 > m34 THEN m12 ELSE m34

\* v / v.norm(): the 2-norm is taken after scaling the components below 1
\* so that the squares fit; a zero vector gives 0/0 = NaN in every component
NormOf(w) == ISqrt(w[1] * w[1] + w[2] * w[2] + w[3] * w[3] + w[4] * w[4])

NormalizeScaled(w) == CHOOSE r \in {[i \in Idx |-> Div(w[i], n)] : n \in {NormOf(w)}} : TRUE

NormalizeV(v) ==
    IF VecHasNaN(v) THEN [i \in Idx |-> NaN]
    ELSE CHOOSE r \in {NormalizeScaled(w) :
                       w \in {[i \in Idx |-> RDiv(v[i], k)] : k \in {MaxAbs(v) \div SCALE + 1}}} : TRUE

Normalize(v) == CHOOSE r \in {NormalizeV(vv) : vv \in {v}} : TRUE

\* A @ B
Dot4(a1, b1, a2, b2, a3, b3, a4, b4) ==
    CHOOSE r \in {Add(Add(p1, p2), Add(p3, p4)) :
                  p1 \in {Mul(a1, b1)}, p2 \in {Mul(a2, b2)},
                  p3 \in {Mul(a3, b3)}, p4 \in {Mul(a4, b4)}} : TRUE

MatMul(A, B) ==
    CHOOSE r \in {[i \in Idx |-> [j \in Idx |->
                      Dot4(a[i][1], b[1][j], a[i][2], b[2][j], a[i][3], b[3][j], a[i][4], b[4][j])]] :
                  a \in {A}, b \in {B}} : TRUE

\* A @ v
MatVec(A, v) ==
    CHOOSE r \in {[i \in Idx |->
                      Dot4(a[i][1], w[1], a[i][2], w[2], a[i][3], w[3], a[i][4], w[4])] :
                  a \in {A}, w \in {v}} : TRUE

MatHasNaN(A) == \E i \in Idx : VecHasNaN(A[i])

Eye4 == <<<<SCALE, 0, 0, 0>>, <<0, SCALE, 0, 0>>, <<0, 0, SCALE, 0>>, <<0, 0, 0, SCALE>>>>

\* utils.translate_enu
translate_enu(e, n, u) ==
    <<<<SCALE, 0, 0, e>>, <<0, SCALE, 0, n>>, <<0, 0, SCALE, u>>, <<0, 0, 0, SCALE>>>>

\* utils.rotate_e: rotation by the angle e about the east axis
rotate_e(e) ==
    CHOOSE r \in {<<<<SCALE, 0, 0, 0>>, <<0, c, Neg(s), 0>>, <<0, s, c, 0>>, <<0, 0, 0, SCALE>>>> :
                  c \in {Cos(e)}, s \in {Sin(e)}} : TRUE

\* utils.rotate_n: rotation by the angle n about the north axis
rotate_n(n) ==
    CHOOSE r \in {<<<<c, 0, s, 0>>, <<0, SCALE, 0, 0>>, <<Neg(s), 0, c, 0>>, <<0, 0, 0, SCALE>>>> :
                  c \in {Cos(n)}, s \in {Sin(n)}} : TRUE

\* utils.rotate_u: rotation by the angle u about the up axis
rotate_u(u) ==
    CHOOSE r \in {<<<<c, Neg(s), 0, 0>>, <<s, c, 0, 0>>, <<0, 0, SCALE, 0>>, <<0, 0, 0, SCALE>>>> :
                  c \in {Cos(u)}, s \in {Sin(u)}} : TRUE

\* -------------------------------------------------------------- actuators
\* Actuator.__call__(actuator_pos): the joint angle at an actuator position
motor_steps_to_angles(actuator, actuator_pos) == Add(actuator_pos, actuator.initial_angle)

\* Actuator.angles_to_motor_steps(angles): the actuator position of an angle
angles_to_motor_steps(actuator, angle) == Sub(angle, actuator.initial_angle)

\* ------------------------------------------------------------- input sets
MaxIter == 3

DefaultMaxNumIterations == 2

\* 0.0001
DefaultMinEps == 1

DeviationFields ==
    {"first_joint_translation_e", "first_joint_translation_n", "first_joint_translation_u",
     "first_joint_tilt_e", "first_joint_tilt_n", "first_joint_tilt_u",
     "second_joint_translation_e", "second_joint_translation_n", "second_joint_translation_u",
     "second_joint_tilt_e", "second_joint_tilt_n", "second_joint_tilt_u",
     "concentrator_translation_e", "concentrator_translation_n", "concentrator_translation_u",
     "concentrator_tilt_e", "concentrator_tilt_n", "concentrator_tilt_u"}

\* KinematicDeviations(): the default of every deviation is 0.0
ZeroDeviations == [f \in DeviationFields |-> 0]

ImperfectMount ==
    [f \in DeviationFields |->
        CASE f = "first_joint_translation_e" -> 1000
          [] f = "first_joint_translation_u" -> 2000
          [] f = "first_joint_tilt_n" -> 500
          [] f = "first_joint_tilt_u" -> 200
          [] f = "second_joint_translation_e" -> 300
          [] f = "second_joint_translation_n" -> 400
          [] f = "second_joint_translation_u" -> 1000
          [] f = "second_joint_tilt_e" -> 100
          [] f = "second_joint_tilt_n" -> 300
          [] f = "concentrator_translation_n" -> 1000
          [] f = "concentrator_translation_u" -> 500
          [] f = "concentrator_tilt_e" -> 1000
          [] f = "concentrator_tilt_u" -> 2000
          [] OTHER -> 0]

DeviationChoices == {ZeroDeviations, ImperfectMount}

\* KinematicOffsets(): the default of every offset is 0.0
ZeroOffsets == [e |-> 0, n |-> 0, u |-> 0]

OffsetChoices == {ZeroOffsets, [e |-> 1000, n |-> 2000, u |-> 3000]}

PositionChoices == {<<0, 0, 0, SCALE>>, <<SCALE, 2 * SCALE, 5000, SCALE>>}

AimPointChoices == {<<0, 100 * SCALE, 0, SCALE>>}

IdealActuator == [initial_angle |-> 0]

ShiftedActuator == [initial_angle |-> 2000]

ActuatorListChoices ==
    {<<>>, <<IdealActuator>>, <<IdealActuator, IdealActuator>>,
     <<IdealActuator, ShiftedActuator>>, <<IdealActuator, IdealActuator, ShiftedActuator>>}

RayChoices == {<<0, -SCALE, 0, 0>>, <<3 * SCALE, 0, 4 * SCALE, 0>>}

MinEpsChoices == {-1, DefaultMinEps}

SurfaceChoices == {[points |-> <<SCALE, 0, 0, SCALE>>, normals |-> <<0, 0, SCALE, 0>>]}

\* ------------------------------------------------------------ RigidBody.align
\* a looser assertion: two or more actuators pass
ExactlyTwoActuators_AtLeastTwo(actuator_list) == Len(actuator_list) >= 2

\* assert len(self.actuators.actuator_list) == 2
ExactlyTwoActuators(actuator_list) == Len(actuator_list) = 2

\* the positions of the previous call kept as the starting point
InitialActuatorSteps_Stale == IF actuator_steps = None THEN <<0, 0>> ELSE actuator_steps

\* a first guess other than zero
InitialActuatorSteps_NonZero == <<SCALE, 0>>

\* actuator_steps = torch.zeros((1, 2))
InitialActuatorSteps == <<0, 0>>

\* range(max_num_iterations) has another element after `done` rounds
LoopContinues(done, maxit) == done < maxit

\* the chain with the concentrator tilts applied after the concentrator translation
ForwardChain_WithConcentratorTilt(pos, dev, actuator_list, steps) ==
    LET joint_1_angles == motor_steps_to_angles(actuator_list[1], steps[1])
        joint_2_angles == motor_steps_to_angles(actuator_list[2], steps[2])
        initial_orientations == MatMul(Eye4, translate_enu(pos[1], pos[2], pos[3]))
        joint_1_rotations ==
            MatMul(MatMul(MatMul(rotate_n(dev.first_joint_tilt_n), rotate_u(dev.first_joint_tilt_u)),
                          translate_enu(dev.first_joint_translation_e, dev.first_joint_translation_n,
                                        dev.first_joint_translation_u)),
                   rotate_e(joint_1_angles))
        joint_2_rotations ==
            MatMul(MatMul(MatMul(rotate_e(dev.second_joint_tilt_e), rotate_n(dev.second_joint_tilt_n)),
                          translate_enu(dev.second_joint_translation_e, dev.second_joint_translation_n,
                                        dev.second_joint_translation_u)),
                   rotate_u(joint_2_angles))
        concentrator ==
            MatMul(MatMul(MatMul(translate_enu(dev.concentrator_translation_e,
                                               dev.concentrator_translation_n,
                                               dev.concentrator_translation_u),
                                 rotate_e(dev.concentrator_tilt_e)),
                          rotate_n(dev.concentrator_tilt_n)),
                   rotate_u(dev.concentrator_tilt_u))
    IN  MatMul(MatMul(MatMul(initial_orientations, joint_1_rotations), joint_2_rotations),
               concentrator)

\* the forward chain of one round: actuator positions -> orientation
ForwardChain(pos, dev, actuator_list, steps) ==
    LET joint_1_angles == motor_steps_to_angles(actuator_list[1], steps[1])
        joint_2_angles == motor_steps_to_angles(actuator_list[2], steps[2])
        initial_orientations == MatMul(Eye4, translate_enu(pos[1], pos[2], pos[3]))
        joint_1_rotations ==
            MatMul(MatMul(MatMul(rotate_n(dev.first_joint_tilt_n), rotate_u(dev.first_joint_tilt_u)),
                          translate_enu(dev.first_joint_translation_e, dev.first_joint_translation_n,
                                        dev.first_joint_translation_u)),
                   rotate_e(joint_1_angles))
        joint_2_rotations ==
            MatMul(MatMul(MatMul(rotate_e(dev.second_joint_tilt_e), rotate_n(dev.second_joint_tilt_n)),
                          translate_enu(dev.second_joint_translation_e, dev.second_joint_translation_n,
                                        dev.second_joint_translation_u)),
                   rotate_u(joint_2_angles))
    IN  MatMul(MatMul(MatMul(initial_orientations, joint_1_rotations), joint_2_rotations),
               translate_enu(dev.concentrator_translation_e, dev.concentrator_translation_n,
                             dev.concentrator_translation_u))

ConcentratorNormals(orient) == MatVec(orient, <<0, -SCALE, 0, 0>>)

ConcentratorOrigins(orient) == MatVec(orient, <<0, 0, 0, SCALE>>)

\* the normalization done on a copy: the caller's tensor keeps its value
NormalizedInPlace_OnCopy(ray) == ray

\* incident_ray_direction /= incident_ray_direction.norm(), in place
NormalizedInPlace(ray) == Normalize(ray)

DesiredReflectVec(aim, orient) == Normalize(VecSub(aim, ConcentratorOrigins(orient)))

\* the ray taken as pointing towards the heliostat: -ray + reflect
DesiredConcentratorNormal_RayReversed(ray, reflect) ==
    Normalize(VecSub(reflect, ray))

\* the desired normal from the (already normalized) ray and the reflect vector
DesiredConcentratorNormal(ray, reflect) == Normalize(VecAdd(ray, reflect))

Loss(desired, normals) == VecAbs(VecSub(desired, normals))

\* torch.any(torch.abs(last_iteration_loss - loss) <= min_eps)
\* torch.all in place of torch.any
Converged_All(last, l, eps) ==
    \E v \in {VecAbs(VecSub(last, l))} : \A i \in Idx : Leq(v[i], eps)

Converged(last, l, eps) ==
    \E v \in {VecAbs(VecSub(last, l))} : \E i \in Idx : Leq(v[i], eps)

\* the analytical solution: <<joint_1_angles, joint_2_angles>>
\* lines 240-243
Joint2Angle(t_n, desired) == Neg(Arcsin(Div(Neg(desired[1]), Cos(t_n))))

\* lines 246-252
CoefficientA(t_e, t_n, joint_2) ==
    Add(Mul(Neg(Cos(t_e)), Cos(joint_2)), Mul(Mul(Sin(t_e), Sin(t_n)), Sin(joint_2)))

\* lines 253-259
CoefficientB(t_e, t_n, joint_2) ==
    Sub(Mul(Neg(Sin(t_e)), Cos(joint_2)), Mul(Mul(Cos(t_e), Sin(t_n)), Sin(joint_2)))

\* lines 261-269
Joint1Angle(a, b, desired) ==
    Sub(Arctan2(Sub(Mul(a, Neg(desired[3])), Mul(b, Neg(desired[2]))),
                Add(Mul(a, Neg(desired[2])), Mul(b, Neg(desired[3])))),
        PI)

InverseSolveV(t_e, t_n, desired, joint_2) ==
    CHOOSE r \in {<<Joint1Angle(a, b, desired), joint_2>> :
                  a \in {CoefficientA(t_e, t_n, joint_2)},
                  b \in {CoefficientB(t_e, t_n, joint_2)}} : TRUE

InverseSolve(dev, desired) ==
    CHOOSE r \in {InverseSolveV(dev.second_joint_translation_e, dev.second_joint_translation_n,
                                d, joint_2) :
                  d \in {desired},
                  joint_2 \in {Joint2Angle(dev.second_joint_translation_n, desired)}} : TRUE

\* torch.stack of the two angles_to_motor_steps results
NextActuatorSteps(actuator_list, angles) ==
    <<angles_to_motor_steps(actuator_list[1], angles[1]),
      angles_to_motor_steps(actuator_list[2], angles[2])>>

\* the offset rotations alone, the loop's orientation left out
ApplyOffsets_WithoutOrientation(orient, offsets) ==
    MatMul(MatMul(MatMul(Eye4, rotate_e(offsets.e)), rotate_n(offsets.n)), rotate_u(offsets.u))

\* the offsets applied N, then E, then U
ApplyOffsets_NorthFirst(orient, offsets) ==
    MatMul(MatMul(MatMul(orient, rotate_n(offsets.n)), rotate_e(offsets.e)), rotate_u(offsets.u))

\* orientation @ rotate_e(offset_e) @ rotate_n(offset_n) @ rotate_u(offset_u)
ApplyOffsets(orient, offsets) ==
    MatMul(MatMul(MatMul(orient, rotate_e(offsets.e)), rotate_n(offsets.n)), rotate_u(offsets.u))

\* ------------------------------------------- align as a function of its inputs
\* What align computes on a kinematic k = [position, aim_point, deviations,
\* actuators] for a ray, max_num_iterations and min_eps, when it starts
\* from zero actuator positions and no previous error: the rounds started,
\* the last orientation of the loop (None if there was no round) and the
\* output of every inverse solve.
RECURSIVE AlignFrom(_, _, _, _, _, _, _, _, _)
AlignAfterCheck(k, ray, maxit, eps, done, last, solved, orient, desired, l) ==
    IF last # None /\ Converged(last, l, eps)
    THEN [rounds |-> done + 1, orientation |-> orient, solved |-> solved]
    ELSE CHOOSE r \in {AlignFrom(k, ray, maxit, eps, done + 1, steps, l, Append(solved, steps), orient) :
                       steps \in {NextActuatorSteps(k.actuators, InverseSolve(k.deviations, desired))}} : TRUE

AlignAfterChain(k, ray, maxit, eps, done, last, solved, orient) ==
    CHOOSE r \in {AlignAfterCheck(k, ray, maxit, eps, done, last, solved, orient, desired[1], desired[2]) :
                  desired \in {<<d, Loss(d, ConcentratorNormals(orient))>> :
                      d \in {DesiredConcentratorNormal(ray, DesiredReflectVec(k.aim_point, orient))}}} : TRUE

AlignRound(k, ray, maxit, eps, done, steps, last, solved) ==
    CHOOSE r \in {AlignAfterChain(k, nray, maxit, eps, done, last, solved, orient) :
                  orient \in {ForwardChain(k.position, k.deviations, k.actuators, steps)},
                  nray \in {Normalize(ray)}} : TRUE

AlignFrom(k, ray, maxit, eps, done, steps, last, solved, orient) ==
    IF done >= maxit
    THEN [rounds |-> done, orientation |-> orient, solved |-> solved]
    ELSE AlignRound(k, ray, maxit, eps, done, steps, last, solved)

FreshAlign(k, ray, maxit, eps) == AlignFrom(k, ray, maxit, eps, 0, <<0, 0>>, None, <<>>, None)

\* ---------------------------------------------------------------- actions
kinematic == <<position, aim_point, deviation_parameters, initial_orientation_offsets, actuators>>

frame == <<max_num_iterations, min_eps, actuator_steps, orientation, last_iteration_loss,
           loss, desired_concentrator_normal, joint_angles>>

history == <<ray0, rounds, broke, round_steps, prev_loss, solved_steps, actuator_calls, earlier_calls>>

vars == <<kinematic, incident_ray_direction, surface, pc, frame, outcome, result,
          aligned_surface, history>>

\* RigidBody.__init__, no call made yet
Init ==
    /\ position \in PositionChoices
    /\ aim_point \in AimPointChoices
    /\ deviation_parameters \in DeviationChoices
    /\ initial_orientation_offsets \in OffsetChoices
    /\ actuators \in ActuatorListChoices
    /\ incident_ray_direction = None
    /\ surface = None
    /\ pc = "idle"
    /\ max_num_iterations = 0
    /\ min_eps = 0
    /\ actuator_steps = None
    /\ orientation = None
    /\ last_iteration_loss = None
    /\ loss = None
    /\ desired_concentrator_normal = None
    /\ joint_angles = None
    /\ outcome = "none"
    /\ result = None
    /\ aligned_surface = None
    /\ ray0 = None
    /\ rounds = 0
    /\ broke = FALSE
    /\ round_steps = None
    /\ prev_loss = None
    /\ solved_steps = <<>>
    /\ actuator_calls = 0
    /\ earlier_calls = FALSE

\* lines 141-147: the assertion, then the locals of a fresh solve
Enter(ray, maxit, eps, surf) ==
    /\ pc = "idle"
    /\ incident_ray_direction' = ray
    /\ ray0' = ray
    /\ surface' = surf
    /\ max_num_iterations' = maxit
    /\ min_eps' = eps
    /\ IF ExactlyTwoActuators(actuators)
       THEN /\ pc' = "loop"
            /\ actuator_steps' = InitialActuatorSteps
            /\ outcome' = "none"
       ELSE /\ pc' = "failed"
            /\ actuator_steps' = actuator_steps
            /\ outcome' = "AssertionError"
    /\ orientation' = None
    /\ last_iteration_loss' = None
    /\ UNCHANGED <<kinematic, loss, desired_concentrator_normal, joint_angles, result,
                   aligned_surface, rounds, broke, round_steps, prev_loss, solved_steps,
                   actuator_calls, earlier_calls>>

\* align(incident_ray_direction, max_num_iterations, min_eps)
Align == \E ray \in RayChoices, maxit \in 0..MaxIter, eps \in MinEpsChoices : Enter(ray, maxit, eps, None)

\* align_surface(incident_ray_direction, surface_points, surface_normals):
\* line 345 calls align with its default max_num_iterations and min_eps
AlignSurface ==
    \E ray \in RayChoices, surf \in SurfaceChoices :
        Enter(ray, DefaultMaxNumIterations, DefaultMinEps, surf)

\* lines 148-235: one round up to the convergence check
LoopRound ==
    /\ pc = "loop"
    /\ LoopContinues(rounds, max_num_iterations)
    /\ \E orient \in {ForwardChain(position, deviation_parameters, actuators, actuator_steps)},
          ray \in {NormalizedInPlace(incident_ray_direction)} :
       \E desired \in {DesiredConcentratorNormal(ray, DesiredReflectVec(aim_point, orient))} :
       \E l \in {Loss(desired, ConcentratorNormals(orient))} :
       \E stop \in {last_iteration_loss # None /\ Converged(last_iteration_loss, l, min_eps)} :
           /\ orientation' = orient
           /\ incident_ray_direction' = ray
           /\ desired_concentrator_normal' = desired
           /\ loss' = l
           /\ broke' = stop
           /\ pc' = IF stop THEN "return" ELSE "solve"
           /\ last_iteration_loss' = IF stop THEN last_iteration_loss ELSE l
           /\ prev_loss' = last_iteration_loss
    /\ rounds' = rounds + 1
    /\ round_steps' = actuator_steps
    /\ actuator_calls' = actuator_calls + 2
    /\ UNCHANGED <<kinematic, surface, max_num_iterations, min_eps, actuator_steps, joint_angles,
                   outcome, result, aligned_surface, ray0, solved_steps, earlier_calls>>

\* lines 237-281: the analytical solution and the next actuator positions
Solve ==
    /\ pc = "solve"
    /\ \E angles \in {InverseSolve(deviation_parameters, desired_concentrator_normal)} :
       \E steps \in {NextActuatorSteps(actuators, angles)} :
           /\ joint_angles' = angles
           /\ actuator_steps' = steps
           /\ solved_steps' = Append(solved_steps, steps)
    /\ actuator_calls' = actuator_calls + 2
    /\ pc' = "loop"
    /\ UNCHANGED <<kinematic, incident_ray_direction, surface, max_num_iterations, min_eps,
                   orientation, last_iteration_loss, loss, desired_concentrator_normal, outcome,
                   result, aligned_surface, ray0, rounds, broke, round_steps, prev_loss,
                   earlier_calls>>

\* line 148: range(max_num_iterations) is exhausted
LoopExit ==
    /\ pc = "loop"
    /\ ~LoopContinues(rounds, max_num_iterations)
    /\ pc' = "return"
    /\ UNCHANGED <<kinematic, incident_ray_direction, surface, frame, outcome, result,
                   aligned_surface, history>>

\* lines 283-313 and, for align_surface, 345-354.  None @ Tensor is a TypeError
Return ==
    /\ pc = "return"
    /\ IF orientation = None
       THEN /\ pc' = "failed"
            /\ outcome' = "TypeError"
            /\ UNCHANGED <<result, aligned_surface>>
       ELSE \E returned \in {ApplyOffsets(orientation, initial_orientation_offsets)} :
                /\ pc' = "done"
                /\ outcome' = "returned"
                /\ result' = returned
                /\ aligned_surface' =
                       IF surface = None THEN None
                       ELSE [points |-> MatVec(returned, surface.points),
                             normals |-> MatVec(returned, surface.normals)]
    /\ UNCHANGED <<kinematic, incident_ray_direction, surface, frame, history>>

\* the caller goes on; the frame is gone (actuator_steps keeps its dead value)
Finish ==
    /\ pc \in {"done", "failed"}
    /\ pc' = "idle"
    /\ incident_ray_direction' = None
    /\ surface' = None
    /\ max_num_iterations' = 0
    /\ min_eps' = 0
    /\ orientation' = None
    /\ last_iteration_loss' = None
    /\ loss' = None
    /\ desired_concentrator_normal' = None
    /\ joint_angles' = None
    /\ outcome' = "none"
    /\ result' = None
    /\ aligned_surface' = None
    /\ ray0' = None
    /\ rounds' = 0
    /\ broke' = FALSE
    /\ round_steps' = None
    /\ prev_loss' = None
    /\ solved_steps' = <<>>
    /\ actuator_calls' = 0
    /\ earlier_calls' = TRUE
    /\ UNCHANGED <<kinematic, actuator_steps>>

Next == Align \/ AlignSurface \/ LoopRound \/ Solve \/ LoopExit \/ Return \/ Finish

Spec == Init /\ [][Next]_vars

\* ------------------------------------------------------------------ claims
Self == [position |-> position, aim_point |-> aim_point, deviations |-> deviation_parameters,
         actuators |-> actuators]

Finite(A) == ~MatHasNaN(A)

\* C1: with an actuator list that does not hold exactly two actuators, every
\* align and align_surface call ends in the assertion failure before the
\* first round: no actuator was queried, no forward chain was built and the
\* caller's incident_ray_direction is as it was passed.
C1_FailsBeforeLoop ==
    (pc # "idle" /\ Len(actuators) # 2) =>
        /\ pc = "failed"
        /\ outcome = "AssertionError"
        /\ rounds = 0
        /\ actuator_calls = 0
        /\ orientation = None
        /\ incident_ray_direction = ray0

C1_Witness == pc = "failed" /\ Len(actuators) = 3 /\ surface # None /\ outcome = "AssertionError"

\* C2: an align call on a kinematic with exactly two actuators ends, for
\* every max_num_iterations (0 included), by returning an orientation after
\* at most max_num_iterations rounds; it never ends without an orientation.
C2_AlwaysReturnsOrientation ==
    (Len(actuators) = 2 /\ pc \in {"done", "failed"}) =>
        /\ outcome = "returned"
        /\ result # None
        /\ rounds <= max_num_iterations

\* the concrete scenario: heliostat at the origin, aim point 100 to the north,
\* two ideal actuators, no deviations, no offsets, ray (0, -1, 0), defaults
TrivialScenario ==
    /\ position = <<0, 0, 0, SCALE>>
    /\ aim_point = <<0, 100 * SCALE, 0, SCALE>>
    /\ actuators = <<IdealActuator, IdealActuator>>
    /\ deviation_parameters = ZeroDeviations
    /\ initial_orientation_offsets = ZeroOffsets
    /\ ray0 = <<0, -SCALE, 0, 0>>
    /\ max_num_iterations = DefaultMaxNumIterations
    /\ min_eps = DefaultMinEps

Tolerance == SCALE \div 100

Near(a, b) == ~IsNaN(a) /\ Abs(a - b) <= Tolerance

\* C3 as stated: in the concrete scenario align returns an orientation whose
\* mirror normal is (0, 1, 0) within tolerance, with both solved joint angles
\* near 0 and every intermediate value finite.
C3_TrivialScenarioConverges ==
    (TrivialScenario /\ pc = "done") =>
        /\ \E n \in {ConcentratorNormals(result)} : Near(n[1], 0) /\ Near(n[2], SCALE) /\ Near(n[3], 0)
        /\ Near(Wrap(joint_angles[1]), 0) /\ Near(Wrap(joint_angles[2]), 0)
        /\ ~VecHasNaN(desired_concentrator_normal)

\* C3 amended: in the concrete scenario the normalized ray (0, -1, 0) and the
\* reflect vector (0, 1, 0) cancel.  Round 1 builds the identity orientation
\* (mirror normal (0, -1, 0)); the desired normal is 0/0, and with it both
\* solved joint angles, the actuator positions and the returned orientation
\* are NaN.  The call still runs its two rounds and returns.
C3_TrivialScenarioDegenerate ==
    TrivialScenario =>
        /\ (rounds = 1 =>
               /\ orientation = Eye4
               /\ ConcentratorNormals(orientation) = <<0, -SCALE, 0, 0>>
               /\ DesiredReflectVec(aim_point, orientation) = <<0, SCALE, 0, 0>>
               /\ incident_ray_direction = <<0, -SCALE, 0, 0>>
               /\ desired_concentrator_normal = <<NaN, NaN, NaN, NaN>>)
        /\ (joint_angles # None => joint_angles = <<NaN, NaN>>)
        /\ (pc \in {"return", "done"} => rounds = 2 /\ ~broke)
        /\ (pc = "done" =>
               /\ outcome = "returned"
               /\ \A i \in Idx : VecHasNaN(result[i])
               /\ VecHasNaN(ConcentratorNormals(result)))

C3_Witness == TrivialScenario /\ pc = "done" /\ rounds = 2 /\ joint_angles = <<NaN, NaN>>

RECURSIVE NormalizedTimes(_, _)
NormalizedTimes(v, k) == IF k = 0 THEN v ELSE NormalizedTimes(Normalize(v), k - 1)

\* C5: an align call leaves position, aim point, deviation parameters,
\* orientation offsets and actuators (and the caller's surface tensors) as
\* they are; once a round has run, the caller's incident_ray_direction holds
\* the normalized ray (normalized again in place in every round).
C5_OnlyRayIsMutated ==
    /\ [][kinematic' = kinematic /\ (pc # "idle" /\ pc' # "idle" => surface' = surface)]_vars
    /\ [](rounds >= 1 => incident_ray_direction = NormalizedTimes(ray0, rounds))
    /\ [](rounds >= 1 /\ ~VecHasNaN(incident_ray_direction) =>
              NormOf(incident_ray_direction) \in (SCALE - 2)..(SCALE + 2))

C5_Witness == pc = "done" /\ rounds >= 2 /\ incident_ray_direction # ray0 /\ surface # None

\* C6: with all three orientation offsets zero the returned orientation is
\* exactly the orientation of the last round of the loop.
C6_ZeroOffsetsReturnLoopOutput ==
    (pc = "done" /\ initial_orientation_offsets = ZeroOffsets) => result = orientation

C6_Witness ==
    /\ pc = "done" /\ initial_orientation_offsets = ZeroOffsets
    /\ rounds >= 2 /\ Finite(orientation) /\ orientation # Eye4
    /\ deviation_parameters = ImperfectMount

\* the elementwise change of the normal error is <= min_eps in some component
SomeComponentSettled ==
    \E i \in Idx : ~IsNaN(prev_loss[i]) /\ ~IsNaN(loss[i]) /\ Abs(prev_loss[i] - loss[i]) <= min_eps

\* C7: the loop is left early in round k iff k >= 2 and the change between
\* round k's and round k-1's normal error is <= min_eps in at least one
\* component; round 1 never leaves early; a round that leaves early runs
\* neither the inverse solve nor the angle-to-position conversion.
C7_EarlyExit ==
    rounds >= 1 =>
        /\ broke <=> (rounds >= 2 /\ SomeComponentSettled)
        /\ (rounds = 1 => prev_loss = None /\ ~broke)
        /\ (broke => Len(solved_steps) = rounds - 1 /\ actuator_calls = 2 * rounds + 2 * (rounds - 1))
        /\ (~broke /\ pc \in {"return", "done"} => Len(solved_steps) = rounds)

C7_Witness ==
    /\ broke /\ rounds >= 2 /\ pc = "done"
    /\ \E i \in Idx : Abs(prev_loss[i] - loss[i]) > min_eps

C7_WitnessNoExit == rounds >= 3 /\ ~broke /\ min_eps >= 0

\* C4: every align call starts from actuator positions (0, 0), no previous
\* error and no orientation, whatever calls came before, and it runs the
\* rounds and returns the orientation that a freshly constructed kinematic
\* with the same parameters gives for the same ray, max_num_iterations and
\* min_eps.
C4_FreshSolvePerCall ==
    /\ (pc = "loop" /\ rounds = 0) =>
           actuator_steps = <<0, 0>> /\ last_iteration_loss = None /\ orientation = None
    /\ pc = "done" =>
           \E f \in {FreshAlign(Self, ray0, max_num_iterations, min_eps)} :
               /\ f.rounds = rounds
               /\ result = ApplyOffsets(f.orientation, initial_orientation_offsets)

C4_Witness == pc = "done" /\ earlier_calls /\ rounds >= 2 /\ Finite(result)

\* C8: the returned matrix is the loop's last orientation @ rotate_e(offset_e)
\* @ rotate_n(offset_n) @ rotate_u(offset_u); the loop's last orientation is
\* the bare forward chain, and the rounds, the actuator positions of every
\* inverse solve and the loop's orientation are those of a solve that is not
\* given the offsets at all.
C8_OffsetsOnceAfterLoop ==
    pc = "done" =>
        /\ result = MatMul(MatMul(MatMul(orientation,
                                         rotate_e(initial_orientation_offsets.e)),
                                  rotate_n(initial_orientation_offsets.n)),
                           rotate_u(initial_orientation_offsets.u))
        /\ orientation = ForwardChain(position, deviation_parameters, actuators, round_steps)
        /\ \E f \in {FreshAlign(Self, ray0, max_num_iterations, min_eps)} :
               f.rounds = rounds /\ f.solved = solved_steps /\ f.orientation = orientation

C8_Witness ==
    /\ pc = "done" /\ initial_orientation_offsets # ZeroOffsets /\ rounds >= 2
    /\ Finite(result) /\ result # orientation
    /\ result # ApplyOffsets_NorthFirst(orientation, initial_orientation_offsets)

ConcentratorTiltChoices == {<<3000, 1000, 2000>>}

WithConcentratorTilts(dev, t) ==
    [dev EXCEPT !.concentrator_tilt_e = t[1], !.concentrator_tilt_n = t[2],
                !.concentrator_tilt_u = t[3]]

\* C9: a kinematic that differs only in the three concentrator tilts goes
\* through the same rounds with the same actuator positions and returns the
\* same orientation.
C9_ConcentratorTiltsIgnored ==
    pc = "done" =>
        \A t \in ConcentratorTiltChoices :
            \E f \in {FreshAlign([Self EXCEPT !.deviations = WithConcentratorTilts(deviation_parameters, t)],
                                 ray0, max_num_iterations, min_eps)} :
                /\ f.rounds = rounds
                /\ f.solved = solved_steps
                /\ result = ApplyOffsets(f.orientation, initial_orientation_offsets)

C9_Witness ==
    /\ pc = "done" /\ deviation_parameters.concentrator_tilt_e # 0 /\ rounds >= 2
    /\ Finite(result)

OtherAimPoints == {<<0, -10 * SCALE, 5 * SCALE, SCALE>>, <<20 * SCALE, 0, 30 * SCALE, SCALE>>}

\* the actuator positions in effect at the start of round k
StartSteps(k) == IF k = 1 THEN <<0, 0>> ELSE solved_steps[k - 1]

\* C10: after k >= 1 rounds the loop's orientation is the forward chain at the
\* actuator positions in effect at the start of round k ((0, 0) for k = 1,
\* else the output of round k-1's inverse solve); the output of the final
\* round's inverse solve of a budget-exhausted call enters no forward chain.
\* With max_num_iterations = 1 the orientation is the forward chain at zero
\* positions, the same for every ray and aim point; with max_num_iterations
\* = 2 a second round uses the output of the one inverse solve before it.
C10_OrientationFromRoundStart ==
    (pc \in {"return", "done"} /\ rounds >= 1) =>
        /\ round_steps = StartSteps(rounds)
        /\ orientation = ForwardChain(position, deviation_parameters, actuators, StartSteps(rounds))
        /\ (pc = "done" =>
               result = ApplyOffsets(ForwardChain(position, deviation_parameters, actuators,
                                                  StartSteps(rounds)),
                                     initial_orientation_offsets))
        /\ (~broke => rounds = max_num_iterations /\ Len(solved_steps) = rounds)
        /\ (max_num_iterations = 1 =>
               /\ orientation = ForwardChain(position, deviation_parameters, actuators, <<0, 0>>)
               /\ \A ray \in RayChoices, aim \in OtherAimPoints :
                      FreshAlign([Self EXCEPT !.aim_point = aim], ray, 1, min_eps).orientation
                          = orientation)
        /\ (max_num_iterations = 2 /\ rounds = 2 =>
               /\ Len(solved_steps) \in {1, 2}
               /\ orientation = ForwardChain(position, deviation_parameters, actuators,
                                             solved_steps[1]))

C10_Witness ==
    /\ pc = "done" /\ ~broke /\ rounds >= 2 /\ Finite(result)
    /\ Len(solved_steps) = rounds
    /\ solved_steps[rounds] # solved_steps[rounds - 1]

C10_WitnessOneRound ==
    pc = "done" /\ max_num_iterations = 1 /\ ray0 # <<0, -SCALE, 0, 0>> /\ orientation # Eye4
====
